---- MODULE Spec2Model ----
(***************************************************************************)
(* A model of the nodejs-demo-app HTTP service (index.js): process start,  *)
(* module initialisation (PORT, the JSON middleware, the two GET routes),  *)
(* app.listen, and the handling of requests by the Express pipeline the    *)
(* module sets up.                                                         *)
(*                                                                         *)
(* Time is counted in milliseconds.  The process has two clocks: the       *)
(* monotonic clock `hr` that process.uptime() reads, and the wall clock    *)
(* `wall` that new Date() reads.  The wall clock may be stepped back by    *)
(* the operating system; the monotonic clock never is.                     *)
(***************************************************************************)
EXTENDS Integers, Sequences, FiniteSets, Bags, TLC

VARIABLES
    env,        \* process.env.PORT: Undefined or a string value
    phase,      \* "boot", "init", "loaded", "binding", "listening", "exited"
    startTime,  \* monotonic-clock reading taken at process start, or -1
    PORT,       \* the module constant PORT (line 3)
    stack,      \* the app's middleware/route stack, in registration order
    bound,      \* what the server socket is bound to, or Unbound
    stdout,     \* lines written by console.log
    stderr,     \* lines written by the runtime's fatal-exception reporter
    exitCode,   \* -1 while the process runs, else its exit status
    hr,         \* monotonic clock, ms
    wall,       \* wall clock: [day |-> days since 1970-01-01, ms |-> ms of day]
    inflight,   \* bag of requests whose JSON body is still being read
    last,       \* the most recent request outcome, or NoOutcome
    lastUptime  \* `uptime` of the most recent /health response, or -1

vars == <<env, phase, startTime, PORT, stack, bound, stdout, stderr, exitCode,
          hr, wall, inflight, last, lastUptime>>

procState == <<env, phase, startTime, PORT, stack, bound, stdout, stderr, exitCode>>

(***************************************************************************)
(* Bounds of the model.                                                    *)
(***************************************************************************)
MaxTicks == 1       \* clock ticks explored
MaxInFlight == 2    \* requests whose body is being read at the same time

TickMs == 500
MsPerDay == 86400000

\* The wall-clock reading when the machine is observed first:
\* 1999-12-31T23:59:59.500Z, so that a tick crosses a day, month and year.
WallBoot == [day |-> 10956, ms |-> 86399500]

ExpressMajor == 4

(***************************************************************************)
(* JavaScript values.                                                      *)
(***************************************************************************)
Undefined == [t |-> "undefined"]
Str(s) == [t |-> "str", s |-> s]
Num(n) == [t |-> "num", n |-> n]
NaN == [t |-> "nan"]

EnvStrings == {"", "8080", "abc", "70000"}
EnvValues == {Undefined} \cup {Str(s) : s \in EnvStrings}

\* ToBoolean: undefined and the empty string are falsy.
Truthy(v) ==
    CASE v.t = "undefined" -> FALSE
      [] v.t = "str" -> v.s # ""
      [] v.t = "num" -> v.n # 0
      [] OTHER -> FALSE

\* a || b
Or(a, b) == IF Truthy(a) THEN a ELSE b

\* Number(s) for the strings of EnvStrings.
StringToNumber(s) ==
    CASE s = "" -> Num(0)
      [] s = "8080" -> Num(8080)
      [] s = "70000" -> Num(70000)
      [] OTHER -> NaN

ToNumber(v) ==
    CASE v.t = "num" -> v
      [] v.t = "str" -> StringToNumber(v.s)
      [] OTHER -> NaN

\* String(v), as a template literal renders it.
ToStr(v) ==
    CASE v.t = "num" -> ToString(v.n)
      [] v.t = "str" -> v.s
      [] OTHER -> v.t

(***************************************************************************)
(* Date.prototype.toISOString                                              *)
(***************************************************************************)
Pad2(n) == IF n < 10 THEN "0" \o ToString(n) ELSE ToString(n)

Pad3(n) == IF n < 10 THEN "00" \o ToString(n)
           ELSE IF n < 100 THEN "0" \o ToString(n) ELSE ToString(n)

Pad4(n) == IF n < 1000 THEN "0" \o Pad3(n) ELSE ToString(n)

\* Proleptic Gregorian date of a day number (days since 1970-01-01, >= 0).
CivilFromDays(days) ==
    LET z == days + 719468
        era == z \div 146097
        doe == z - era * 146097
        yoe == (doe - doe \div 1460 + doe \div 36524 - doe \div 146096) \div 365
        doy == doe - (365 * yoe + yoe \div 4 - yoe \div 100)
        mp == (5 * doy + 2) \div 153
        d == doy - (153 * mp + 2) \div 5 + 1
        m == IF mp < 10 THEN mp + 3 ELSE mp - 9
        y == yoe + era * 400 + (IF m <= 2 THEN 1 ELSE 0)
    IN  [year |-> y, month |-> m, day |-> d]

ToISOString(w) ==
    LET c == CivilFromDays(w.day)
        h == w.ms \div 3600000
        mi == (w.ms \div 60000) % 60
        s == (w.ms \div 1000) % 60
        f == w.ms % 1000
    IN  Pad4(c.year) \o "-" \o Pad2(c.month) \o "-" \o Pad2(c.day) \o "T"
        \o Pad2(h) \o ":" \o Pad2(mi) \o ":" \o Pad2(s) \o "." \o Pad3(f) \o "Z"

\* The wall clock advanced by d milliseconds (d < MsPerDay).
WallPlus(w, d) ==
    IF w.ms + d >= MsPerDay
    THEN [day |-> w.day + 1, ms |-> w.ms + d - MsPerDay]
    ELSE [day |-> w.day, ms |-> w.ms + d]

\* w1 is not later than w2.
WallLeq(w1, w2) == w1.day < w2.day \/ (w1.day = w2.day /\ w1.ms <= w2.ms)

(***************************************************************************)
(* Requests.                                                               *)
(***************************************************************************)
Methods == {"GET", "HEAD", "POST", "OPTIONS"}
Paths == {"/", "/health", "/HEALTH/", "/nonexistent"}

Req(m, p, q, hb, ct, b) ==
    [method |-> m, path |-> p, query |-> q, hasBody |-> hb, ctype |-> ct, body |-> b]

\* Requests that carry no body.
Bodyless ==
    {Req(m, p, "", FALSE, "", "") : m \in Methods, p \in Paths}
    \cup {Req("GET", p, "?x=1", FALSE, "", "") : p \in {"/", "/health"}}

\* Requests that carry a body.
WithBody ==
    { Req("GET", "/", "", TRUE, "application/json", "{}"),
      Req("GET", "/", "", TRUE, "application/json", "{bad"),
      Req("GET", "/health", "", TRUE, "application/json", "{bad"),
      Req("POST", "/nonexistent", "", TRUE, "application/json", "{bad"),
      Req("GET", "/", "", TRUE, "text/plain", "{bad"),
      Req("GET", "/health", "", TRUE, "text/plain", "{bad") }

Requests == Bodyless \cup WithBody

(***************************************************************************)
(* express.json(): the body-parser JSON middleware with default options.   *)
(***************************************************************************)
\* type-is against the default type "application/json".
IsJsonType(ct) == ct = "application/json"

\* First step of the middleware: a request without a body, or whose
\* Content-Type is not JSON, is passed on unread; otherwise the body is read.
JsonMiddleware(req) ==
    IF ~req.hasBody THEN "next"
    ELSE IF ~IsJsonType(req.ctype) THEN "next"
    ELSE "read"

\* First non-whitespace character of the body texts of the model.
FirstChar(text) ==
    CASE text = "{}" -> "{"
      [] text = "{bad" -> "{"
      [] OTHER -> ""

\* JSON.parse succeeds on the text.
JSONParses(text) ==
    CASE text = "{}" -> TRUE
      [] text = "{bad" -> FALSE
      [] OTHER -> FALSE

\* parse() of the middleware (strict mode): "ok", or the status of the error.
JsonParse(text) ==
    IF text = "" THEN "ok"
    ELSE IF FirstChar(text) \notin {"{", "["} THEN "400"
    ELSE IF JSONParses(text) THEN "ok"
    ELSE "400"

(***************************************************************************)
(* Responses.                                                              *)
(***************************************************************************)
Empty == [empty |-> TRUE]
Html(text) == [html |-> text]

Response(st, allow, body) == [status |-> st, allow |-> allow, body |-> body]

\* res.json / res.send: a HEAD request gets the headers without the body.
Send(req, st, body) ==
    Response(st, "", IF req.method = "HEAD" THEN Empty ELSE body)

\* Handler of app.get('/').
Welcome(req, now) ==
    Send(req, 200, [message |-> "Welcome to Node.js Demo App!",
                    status |-> "success",
                    timestamp |-> ToISOString(now.wall)])

\* Uptime measured on the wall clock, from the first wall-clock reading.
UptimeWallClock(now, start) ==
    (now.wall.day - WallBoot.day) * MsPerDay + now.wall.ms - WallBoot.ms

\* process.uptime(): monotonic time elapsed since process start.
Uptime(now, start) == now.hr - start

\* Handler of app.get('/health').
Health(req, now, start) ==
    Send(req, 200, [status |-> "healthy", uptime |-> Uptime(now, start)])

\* finalhandler: no layer answered.
NotFound(req) ==
    Send(req, 404, Html("Cannot " \o req.method \o " " \o req.path))

\* The default error handler, for an error the JSON middleware raised.
ErrorResponse(req, st) == Send(req, st, Html("SyntaxError"))

\* The router's automatic answer to OPTIONS.
OptionsResponse(req, allow) == Response(200, allow, [text |-> allow])

(***************************************************************************)
(* The router.                                                             *)
(***************************************************************************)
ToLower(p) == IF p = "/HEALTH/" THEN "/health/" ELSE p

StripTrailingSlash(p) == IF p = "/health/" THEN "/health" ELSE p

\* Path match of a route layer: case-insensitive, trailing slash optional.
MatchPath(layerPath, reqPath) == StripTrailingSlash(ToLower(reqPath)) = layerPath

\* Method match without the HEAD fallback.
HandlesMethodExact(layer, method) == layer.method = method

\* A route handles the method: HEAD falls back to the route's GET handler.
HandlesMethod(layer, method) ==
    \/ layer.method = method
    \/ (method = "HEAD" /\ layer.method = "GET")

RouteLayers(st) == SelectSeq(st, LAMBDA l : l.kind = "route")

RunHandler(name, req, now, start) ==
    IF name = "welcome" THEN Welcome(req, now) ELSE Health(req, now, start)

\* Router dispatch after the middleware called next(): the first route layer
\* whose path and method match answers; OPTIONS collects the methods of the
\* path-matching routes; otherwise the request is unhandled.
Dispatch(st, req, now, start) ==
    LET routes == RouteLayers(st)
        hits == {i \in 1..Len(routes) :
                    /\ MatchPath(routes[i].path, req.path)
                    /\ HandlesMethod(routes[i], req.method)}
        pathHits == {i \in 1..Len(routes) : MatchPath(routes[i].path, req.path)}
    IN  IF hits # {}
        THEN LET i == CHOOSE k \in hits : \A j \in hits : k <= j
             IN  RunHandler(routes[i].handler, req, now, start)
        ELSE IF req.method = "OPTIONS" /\ pathHits # {}
        THEN OptionsResponse(req, IF ExpressMajor < 5 THEN "GET,HEAD" ELSE "GET, HEAD")
        ELSE NotFound(req)

\* The whole pipeline for a request whose body (if any) is available.
Pipeline(st, req, now, start) ==
    IF JsonMiddleware(req) = "read" /\ JsonParse(req.body) # "ok"
    THEN ErrorResponse(req, 400)
    ELSE Dispatch(st, req, now, start)

(***************************************************************************)
(* Start-up: lines 1-3, 6, 9-22 and 25-27 of index.js.                     *)
(***************************************************************************)
Unbound == [kind |-> "none"]
Tcp(n) == [kind |-> "tcp", port |-> n]
Pipe(s) == [kind |-> "pipe", path |-> s]
BadPort == [kind |-> "ERR_SOCKET_BAD_PORT"]

\* PORT without the environment lookup.
PortConstFixed(e) == Num(3000)

\* const PORT = process.env.PORT || 3000
PortConst(e) == Or(e, Num(3000))

\* net's isPipeName: a string that Number() does not turn into a number >= 0.
IsPipeName(v) ==
    /\ v.t = "str"
    /\ LET n == ToNumber(v) IN n.t = "nan" \/ n.n < 0

\* net's validatePort: an integer in 0..65535.
ValidPort(v) == LET n == ToNumber(v) IN n.t = "num" /\ n.n >= 0 /\ n.n <= 65535

\* What server.listen(PORT) tries to bind, or BadPort when it throws.
ListenTarget(v) ==
    IF IsPipeName(v) THEN Pipe(v.s)
    ELSE IF ValidPort(v) THEN Tcp(ToNumber(v).n)
    ELSE BadPort

\* The callback given to app.listen (lines 25-27); it ignores its arguments.
ListenCallback(port) == "Server is running on port " \o ToStr(port)

\* The stack after app.use(express.json()) and the two app.get calls.
AppStack ==
    << [kind |-> "middleware", method |-> "", path |-> "", handler |-> "json"],
       [kind |-> "route", method |-> "GET", path |-> "/", handler |-> "welcome"],
       [kind |-> "route", method |-> "GET", path |-> "/health", handler |-> "health"] >>

NoOutcome == [outcome |-> "none"]

Init ==
    /\ env \in EnvValues
    /\ phase = "boot"
    /\ startTime = -1
    /\ PORT = Undefined
    /\ stack = << >>
    /\ bound = Unbound
    /\ stdout = << >>
    /\ stderr = << >>
    /\ exitCode = -1
    /\ hr = 0
    /\ wall = WallBoot
    /\ inflight = EmptyBag
    /\ last = NoOutcome
    /\ lastUptime = -1

\* Time passes on both clocks.
Tick ==
    /\ hr < MaxTicks * TickMs
    /\ hr' = hr + TickMs
    /\ wall' = WallPlus(wall, TickMs)
    /\ UNCHANGED <<procState, inflight, last, lastUptime>>

\* The operating system steps the wall clock back (clock correction).
ClockSetBack ==
    /\ wall # WallBoot
    /\ wall' = WallBoot
    /\ UNCHANGED <<procState, hr, inflight, last, lastUptime>>

\* The runtime records the process start time before it runs any module.
NodeStart ==
    /\ phase = "boot"
    /\ phase' = "init"
    /\ startTime' = hr
    /\ UNCHANGED <<env, PORT, stack, bound, stdout, stderr, exitCode,
                   hr, wall, inflight, last, lastUptime>>

\* Lines 1-22: PORT is computed, the middleware and the routes are registered.
LoadModule ==
    /\ phase = "init"
    /\ phase' = "loaded"
    /\ PORT' = PortConst(env)
    /\ stack' = AppStack
    /\ UNCHANGED <<env, startTime, bound, stdout, stderr, exitCode,
                   hr, wall, inflight, last, lastUptime>>

\* An exception nobody catches: the runtime reports it and exits with 1.
Fatal(what) ==
    /\ stderr' = Append(stderr, "Uncaught " \o what)
    /\ exitCode' = 1
    /\ phase' = "exited"

\* Line 25: app.listen(PORT, callback) starts binding, or throws on a bad port.
Listen ==
    /\ phase = "loaded"
    /\ IF ListenTarget(PORT) = BadPort
       THEN Fatal("ERR_SOCKET_BAD_PORT") /\ UNCHANGED stdout
       ELSE phase' = "binding" /\ UNCHANGED <<stdout, stderr, exitCode>>
    /\ UNCHANGED <<env, startTime, PORT, stack, bound, hr, wall, inflight, last, lastUptime>>

\* The bind succeeds: 'listening' fires and the callback logs.
BindOk ==
    /\ phase = "binding"
    /\ phase' = "listening"
    /\ bound' = ListenTarget(PORT)
    /\ stdout' = Append(stdout, ListenCallback(PORT))
    /\ UNCHANGED <<env, startTime, PORT, stack, stderr, exitCode,
                   hr, wall, inflight, last, lastUptime>>

\* A listen callback that is also run on 'error': it logs and the process
\* ends normally.
BindErrorToCallback ==
    /\ stdout' = Append(stdout, ListenCallback(PORT))
    /\ exitCode' = 0
    /\ phase' = "exited"
    /\ UNCHANGED stderr

\* The bind fails (address in use, no permission): the server emits 'error'.
\* Express 4 registers the callback for 'listening' only, so the event has no
\* listener and is thrown; Express 5 also calls the callback with the error,
\* after which nothing keeps the process alive and it exits with 0.
BindError ==
    IF ExpressMajor < 5
    THEN Fatal("EADDRINUSE") /\ UNCHANGED stdout
    ELSE BindErrorToCallback

BindFail ==
    /\ phase = "binding"
    /\ BindError
    /\ UNCHANGED <<env, startTime, PORT, stack, bound, hr, wall, inflight, last, lastUptime>>

(***************************************************************************)
(* Request handling.                                                       *)
(***************************************************************************)
Now == [hr |-> hr, wall |-> wall]

Responded(req, res) == [outcome |-> "response", req |-> req, res |-> res]
Dropped(req) == [outcome |-> "dropped", req |-> req, res |-> Response(0, "", Empty)]

\* A handler that restarts the uptime reference on each request.
HandlerResetsStart ==
    /\ startTime' = hr
    /\ UNCHANGED <<env, phase, PORT, stack, bound, stdout, stderr, exitCode>>

\* What handling a request does to the process-wide state: the middleware and
\* the two handlers assign nothing outside the request and the response.
HandlerFrame == UNCHANGED procState

\* The response is written; the outcome is recorded.
Finish(req, res) ==
    /\ last' = Responded(req, res)
    /\ lastUptime' = IF "uptime" \in DOMAIN res.body THEN res.body.uptime ELSE lastUptime

\* A request arrives.  A request the JSON middleware does not read runs to its
\* response in the same turn of the event loop; one it reads waits for its body.
Handle(req) ==
    /\ phase = "listening"
    /\ IF JsonMiddleware(req) = "read"
       THEN /\ BagCardinality(inflight) < MaxInFlight
            /\ inflight' = inflight (+) SetToBag({req})
            /\ UNCHANGED <<last, lastUptime>>
       ELSE /\ Finish(req, Pipeline(stack, req, Now, startTime))
            /\ UNCHANGED inflight
    /\ HandlerFrame
    /\ UNCHANGED <<hr, wall>>

\* BodyEnd with one body buffer shared by the requests being read: the text
\* parsed is that of some request in flight, not necessarily its own.
BodyEndSharedBuffer(req) ==
    /\ phase = "listening"
    /\ BagIn(req, inflight)
    /\ inflight' = inflight (-) SetToBag({req})
    /\ \E other \in BagToSet(inflight) :
          Finish(req, Pipeline(stack, [req EXCEPT !.body = other.body], Now, startTime))
    /\ UNCHANGED <<procState, hr, wall>>

\* The body of a request has been read: it is parsed, and the request is
\* answered by the error handler or by the router.
BodyEnd(req) ==
    /\ phase = "listening"
    /\ BagIn(req, inflight)
    /\ inflight' = inflight (-) SetToBag({req})
    /\ Finish(req, Pipeline(stack, req, Now, startTime))
    /\ HandlerFrame
    /\ UNCHANGED <<hr, wall>>

\* The connection is lost while the body is read: no response reaches the client.
Abort(req) ==
    /\ phase = "listening"
    /\ BagIn(req, inflight)
    /\ inflight' = inflight (-) SetToBag({req})
    /\ last' = Dropped(req)
    /\ HandlerFrame
    /\ UNCHANGED <<hr, wall, lastUptime>>

Next ==
    \/ Tick
    \/ ClockSetBack
    \/ NodeStart
    \/ LoadModule
    \/ Listen
    \/ BindOk
    \/ BindFail
    \/ \E req \in Requests : Handle(req)
    \/ \E req \in Requests : BodyEnd(req)
    \/ \E req \in Requests : Abort(req)

Spec == Init /\ [][Next]_vars

(***************************************************************************)
(* Vocabulary of the properties.                                           *)
(***************************************************************************)
IsResponse(o) == o.outcome = "response"

\* The outcome answers a request with this method and exactly this path.
IsFor(o, method, path) ==
    IsResponse(o) /\ o.req.method = method /\ o.req.path = path

\* A step that records a new outcome.
NewOutcome == last' # last

\* The wall-clock readings of the model, and Date.parse on their renderings.
WallReadings == {WallPlus(WallBoot, k * TickMs) : k \in 0..MaxTicks}

ParseISO(ts) == CHOOSE w \in WallReadings : ToISOString(w) = ts

\* The same request stripped of query string, headers and body.
Plain(req) == Req(req.method, req.path, "", FALSE, "", "")

\* The JSON middleware rejects the body of the request.
BodyRejected(req) ==
    req.hasBody /\ req.ctype = "application/json" /\ req.body \notin {"", "{}"}

WelcomeBody(b) ==
    /\ DOMAIN b = {"message", "status", "timestamp"}
    /\ b.message = "Welcome to Node.js Demo App!"
    /\ b.status = "success"

HealthBody(b) ==
    /\ DOMAIN b = {"status", "uptime"}
    /\ b.status = "healthy"

(***************************************************************************)
(* C1.  Every GET / is answered 200 with the welcome message, status       *)
(* "success" and the ISO-8601 rendering of the wall-clock time at which    *)
(* the request is handled.                                                 *)
(***************************************************************************)
C1_WelcomeAlways ==
    [][(NewOutcome /\ IsFor(last', "GET", "/")) =>
         /\ last'.res.status = 200
         /\ WelcomeBody(last'.res.body)
         /\ last'.res.body.timestamp = ToISOString(wall)]_vars

(***************************************************************************)
(* C2.  Every GET /health is answered 200 with status "healthy" and a      *)
(* non-negative numeric uptime.                                            *)
(***************************************************************************)
C2_HealthAlways ==
    IsFor(last, "GET", "/health") =>
        /\ last.res.status = 200
        /\ HealthBody(last.res.body)
        /\ last.res.body.uptime \in Nat

StatusByRule(req) ==
    IF BodyRejected(req) THEN 400
    ELSE IF req.path \in {"/", "/health", "/HEALTH/"}
                /\ req.method \in {"GET", "HEAD", "OPTIONS"} THEN 200
    ELSE 404

EnvIsPort(e) ==
    /\ e.t = "str"
    /\ LET n == StringToNumber(e.s) IN n.t = "num" /\ n.n >= 1 /\ n.n <= 65535

C4_DefaultsTo3000 ==
    phase = "listening" =>
        bound = IF EnvIsPort(env) THEN Tcp(StringToNumber(env.s).n) ELSE Tcp(3000)

(***************************************************************************)
(* C4, amended.  The server listens on port 3000 when PORT is unset or     *)
(* empty, and on the port PORT names when it is a port number in           *)
(* 1..65535.  Any other value is handed to listen unchanged: a text that   *)
(* is no number is bound as a pipe (socket path) of that name, and a       *)
(* number above 65535 makes listen throw, so that the process never        *)
(* listens and exits with status 1.                                        *)
(***************************************************************************)
C4_PortFromEnv ==
    /\ phase = "listening" =>
         /\ (env = Undefined \/ env = Str("")) => bound = Tcp(3000)
         /\ EnvIsPort(env) => bound = Tcp(StringToNumber(env.s).n)
         /\ (env.t = "str" /\ env.s # "" /\ StringToNumber(env.s) = NaN)
                => bound = Pipe(env.s)
    /\ (env.t = "str" /\ StringToNumber(env.s).t = "num" /\ StringToNumber(env.s).n > 65535)
         => /\ phase \notin {"binding", "listening"}
            /\ bound = Unbound
            /\ phase = "exited" => exitCode = 1

C4_ListensOnPipe == phase = "listening" /\ env = Str("abc") /\ bound = Pipe("abc")

(***************************************************************************)
(* C5.  The answer to GET / and GET /health depends on the time alone: a   *)
(* request with any query string, headers or body (malformed JSON          *)
(* included) gets the answer the bare request gets at the same instant,    *)
(* and never an error.                                                     *)
(***************************************************************************)
C5_OnlyTimeMatters ==
    [][(NewOutcome /\ (IsFor(last', "GET", "/") \/ IsFor(last', "GET", "/health"))) =>
         /\ last'.res = Pipeline(stack, Plain(last'.req), Now, startTime)
         /\ last'.res.status < 400]_vars

(***************************************************************************)
(* C6.  Two successive GET requests to the same route get the same status  *)
(* and the same constant fields, and the timestamp (/) or uptime (/health) *)
(* of the second is not less than that of the first.                       *)
(***************************************************************************)
SameRouteGets(a, b) ==
    /\ IsResponse(a) /\ IsResponse(b)
    /\ a.req.method = "GET" /\ b.req.method = "GET"
    /\ a.req.path = b.req.path
    /\ a.req.path \in {"/", "/health"}

TimeFieldLeq(a, b) ==
    IF "timestamp" \in DOMAIN a THEN WallLeq(ParseISO(a.timestamp), ParseISO(b.timestamp))
    ELSE IF "uptime" \in DOMAIN a THEN a.uptime <= b.uptime
    ELSE TRUE

C6_SuccessiveGets ==
    [][(NewOutcome /\ SameRouteGets(last, last')) =>
         /\ last'.res.status = last.res.status
         /\ DOMAIN last'.res.body = DOMAIN last.res.body
         /\ \A f \in DOMAIN last.res.body \ {"timestamp", "uptime"} :
                last'.res.body[f] = last.res.body[f]
         /\ TimeFieldLeq(last.res.body, last'.res.body)]_vars

(***************************************************************************)
(* C7.  The uptime GET /health returns is the monotonic clock's reading    *)
(* minus the reading taken at process start, and it never decreases from   *)
(* one /health response to the next one handled.                           *)
(***************************************************************************)
C7_UptimeMonotone ==
    [][(NewOutcome /\ IsResponse(last') /\ "uptime" \in DOMAIN last'.res.body) =>
         /\ last'.res.body.uptime = hr - startTime
         /\ last'.res.body.uptime >= lastUptime
         /\ lastUptime' = last'.res.body.uptime]_vars

C7_UptimeSeen ==
    /\ IsFor(last, "GET", "/health")
    /\ last.res.status = 200
    /\ startTime = TickMs
    /\ last.res.body.uptime = 0
    /\ hr = TickMs

(***************************************************************************)
(* C8.  A failed bind is fatal: the failure is reported on stderr, the     *)
(* process exits with a non-zero status, "Server is running" is never      *)
(* logged and no request is ever served.                                   *)
(***************************************************************************)
C8_BindFailureFatal ==
    /\ [][(phase = "binding" /\ phase' # "binding" /\ phase' # "listening") =>
            /\ phase' = "exited"
            /\ exitCode' > 0
            /\ Len(stderr') = Len(stderr) + 1
            /\ stdout' = stdout]_vars
    /\ [](phase = "exited" =>
            /\ exitCode > 0
            /\ stderr # << >>
            /\ stdout = << >>
            /\ bound = Unbound
            /\ last = NoOutcome
            /\ inflight = EmptyBag)
    /\ [][phase = "exited" => phase' = "exited"]_vars

C8_BindFailed ==
    phase = "exited" /\ exitCode = 1 /\ stderr = <<"Uncaught EADDRINUSE">>

(***************************************************************************)
(* C9.  The process start time is set exactly once, before the server      *)
(* listens and before any request is handled, and handling a request       *)
(* (answered by a route, unhandled, rejected or dropped) leaves the        *)
(* process-wide state as it was.                                           *)
(***************************************************************************)
C9_StartTimeFrame ==
    /\ [][startTime # -1 => startTime' = startTime]_vars
    /\ [](phase \in {"binding", "listening"} => startTime # -1)
    /\ [](last # NoOutcome \/ inflight # EmptyBag => startTime # -1)
    /\ [][(last' # last \/ inflight' # inflight) => procState' = procState]_vars

C9_ServedAfterStart ==
    /\ startTime = TickMs
    /\ IsFor(last, "GET", "/nonexistent")
    /\ inflight # EmptyBag

(***************************************************************************)
(* C10.  Whatever else is in flight, a request whose body is being read    *)
(* ends in exactly one outcome, a response or a drop, and its response is  *)
(* the one the pipeline gives that request alone at that instant.          *)
(***************************************************************************)
C10_Independent ==
    /\ [][\A req \in Requests :
            CopiesIn(req, inflight') < CopiesIn(req, inflight) =>
              /\ inflight' (+) SetToBag({req}) = inflight
              /\ last'.req = req
              /\ \/ last' = Dropped(req)
                 \/ last' = Responded(req, Pipeline(AppStack, req, Now, startTime))]_vars
    /\ [][(NewOutcome /\ IsResponse(last')) =>
            last'.res = Pipeline(AppStack, last'.req, Now, startTime)]_vars
    /\ [][NewOutcome => BagCardinality(inflight') <= BagCardinality(inflight)]_vars

C10_AnsweredWhileOthersRead ==
    /\ IsResponse(last)
    /\ JsonMiddleware(last.req) = "read"
    /\ last.res.status = 200
    /\ \E other \in BagToSet(inflight) : other.body # last.req.body

====
